---- MODULE Spec2Model ----
(***************************************************************************)
(* The batch commands of the SigNoz dashboard CLI (sdm): main()'s dispatch *)
(* of `rm` and `add`, Commands.delete_dashboards with the pattern          *)
(* matching, the de-duplication, the confirmation gate, the deletion loop  *)
(* and the summary, and Commands.add_dashboards with the selection, the    *)
(* confirmation and the add loop.  An action runs from one wait (a request *)
(* to the server, a prompt) to the next, so an interrupt can arrive during *)
(* each.  Strings are sequences of one-character strings.                  *)
(***************************************************************************)
EXTENDS Integers, Sequences, FiniteSets, TLC

\* ------------------------------------------------------------------ bounds
MaxIds == 3        \* longest list of explicit identifiers on the command line
MaxPatterns == 2   \* longest list of title patterns on the command line
MaxListing == 2    \* longest dashboard listing the server returns
MaxRawIds == 5     \* longest list of explicit identifiers when only resolving
MaxPaths == 2      \* longest list of dashboard files or URLs given to `add`
MaxParts == 2      \* most comma-separated parts in an answer to the selection prompt

\* ------------------------------------------------------------------ inputs
\* A dashboard of the listing: its uuid and data.title (has_title is FALSE
\* when the data carries no title key).
Dashboards ==
  { [uuid |-> <<"1">>, has_title |-> TRUE,  title |-> <<"A", "b">>],
    [uuid |-> <<"2">>, has_title |-> FALSE, title |-> <<>>] }

\* Identifiers given as uuids; <<"3">> is never in a listing.
Uuids == { <<"1">>, <<"2">>, <<"3">> }

\* Identifiers given as title patterns: a literal, a glob star, and one that
\* does not compile.
Patterns == { <<"a">>, <<"*">>, <<"(">> }

\* Arguments of `add`: a local file and an http URL.
Paths == { <<"f">>, <<"h">> }

\* The .json files of the dashboards repository as their raw URLs, sorted
\* by (category, path); a fetch lists a prefix of it.
Tree == << <<"h">>, <<"h", "2">> >>
Repository == { SubSeq(Tree, 1, k) : k \in 0..Len(Tree) }

\* One comma-separated part of an answer to the selection prompt: a number,
\* a range lo-hi, or text that is no number.
SelectionParts ==
  { [kind |-> "number", lo |-> n, hi |-> n] : n \in 0..(Len(Tree) + 1) } \cup
  { [kind |-> "range", lo |-> a, hi |-> b] : a, b \in 1..(Len(Tree) + 1) } \cup
  { [kind |-> "text", lo |-> 0, hi |-> 0] }

SeqsUpTo(S, n) == UNION { [1..k -> S] : k \in 0..n }

\* What the HTTP DELETE can come back with: a status code with or without a
\* JSON body, or no response at all (sent = FALSE: connection error).
Responses ==
  { [sent |-> TRUE,  code |-> 200, json |-> TRUE],
    [sent |-> TRUE,  code |-> 204, json |-> FALSE],
    [sent |-> TRUE,  code |-> 202, json |-> TRUE],
    [sent |-> TRUE,  code |-> 202, json |-> FALSE],
    [sent |-> TRUE,  code |-> 404, json |-> TRUE],
    [sent |-> FALSE, code |-> 0,   json |-> FALSE] }

\* ------------------------------------------------------------------ state
VARIABLES
  command,          \* args.command: "rm" or "add"
  skip_errors,      \* args.skip_errors / skip_errors
  file_paths,       \* add_dashboards: the files and URLs to add
  failed_paths,     \* add_dashboards: the items that failed
  available,        \* add_dashboards: `dashboards`, the fetched repository list
  entry,            \* "main": run as `sdm ...`; "direct": the command method called
  identifiers,      \* args.args / identifiers
  force,            \* args.yes / force
  by_title,         \* args.title / by_title
  remove_all,       \* args.all / remove_all
  token,            \* api.token is usable
  listing,          \* what the server would list
  pc,               \* position in the code
  all_dashboards,   \* delete_dashboards: the fetched listing
  uuids_to_delete,  \* delete_dashboards: targets before de-duplication
  unique_uuids,     \* delete_dashboards: targets
  i,                \* deletion loop: index of the next target (from 1)
  success_count,    \* deletion loop
  failed_uuids,     \* deletion loop
  results,          \* outcome of each delete call made, in call order
  trace,            \* UI and API events in program order
  reported,         \* the summary printed after the loop
  outcome,          \* how the command ended
  status,           \* process exit status, -1 while running
  stopped_at        \* the position at which the command ended, "none" while running

inputs == <<command, skip_errors, entry, identifiers, force, by_title,
            remove_all, token, listing>>
added == <<file_paths, failed_paths, available>>
locals == <<all_dashboards, uuids_to_delete, unique_uuids, i, success_count,
            failed_uuids, results, reported>>
vars == <<command, skip_errors, file_paths, failed_paths, available, entry, identifiers, force, by_title, remove_all, token, listing, pc,
          all_dashboards, uuids_to_delete, unique_uuids, i, success_count,
          failed_uuids, results, trace, reported, outcome, status, stopped_at>>

\* An event: what was printed, asked or called, its argument, and a detail
\* (the title of a rendered dashboard, the answer to a prompt).
Ev(e, a) == [ev |-> e, arg |-> a, detail |-> <<>>]
NotReported == [printed |-> FALSE, succeeded |-> 0, failed |-> <<>>]

\* The elements of a sequence.
Range(s) == { s[k] : k \in 1..Len(s) }

\* ------------------------------------------------------- pattern matching
Lower(c) == CASE c = "A" -> "a" [] c = "B" -> "b" [] OTHER -> c

\* pattern.replace('*', '.*')
RECURSIVE GlobToRegex(_)
GlobToRegex(p) ==
  IF p = <<>> THEN <<>>
  ELSE (IF Head(p) = "*" THEN <<".", "*">> ELSE <<Head(p)>>) \o GlobToRegex(Tail(p))

\* re.compile succeeds: over letters, ".", "*" and "(", it fails on an
\* unterminated "(" and on a "*" with nothing to repeat.
Compiles(rx) ==
  \A k \in 1..Len(rx) :
     /\ rx[k] # "("
     /\ rx[k] = "*" => (k > 1 /\ rx[k-1] \notin {"*", "("})

\* One regex atom against one character, under re.IGNORECASE.
CharMatch(c, x) == c = "." \/ Lower(c) = Lower(x)

\* The regex matches a prefix of s.
RECURSIVE MatchHere(_, _)
MatchHere(rx, s) ==
  IF rx = <<>> THEN TRUE
  ELSE IF Len(rx) >= 2 /\ rx[2] = "*"
    THEN \E k \in 0..Len(s) :
            /\ \A j \in 1..k : CharMatch(rx[1], s[j])
            /\ MatchHere(SubSeq(rx, 3, Len(rx)), SubSeq(s, k + 1, Len(s)))
    ELSE /\ s # <<>>
         /\ CharMatch(rx[1], s[1])
         /\ MatchHere(Tail(rx), Tail(s))

\* regex.search(s): the regex matches somewhere in s.
Search(rx, s) == \E j \in 0..Len(s) : MatchHere(rx, SubSeq(s, j + 1, Len(s)))

\* dashboard.get('data', {}).get('title', '')
TitleOrEmpty(d) == IF d.has_title THEN d.title ELSE <<>>

\* dashboard.get('data', {}).get('title', 'Untitled')
TitleOrUntitled(d) ==
  IF d.has_title THEN d.title ELSE <<"U", "n", "t", "i", "t", "l", "e", "d">>

\* The uuids of the dashboards whose title the pattern matches, in listing order.
Matches(pattern, dashboards) ==
  LET rx == GlobToRegex(pattern)
      Hit(d) == Search(rx, TitleOrEmpty(d))
      hits == SelectSeq(dashboards, Hit)
  IN  [k \in 1..Len(hits) |-> hits[k].uuid]

\* Variant: the last dashboard of the listing is left out.
AllUuidsButLast(dashboards) ==
  [k \in 1..(Len(dashboards) - 1) |-> dashboards[k].uuid]

\* [d['uuid'] for d in all_dashboards]
AllUuids(dashboards) == [k \in 1..Len(dashboards) |-> dashboards[k].uuid]

\* ------------------------------------------------------------ resolution
\* The by_title loop over the patterns: the uuids collected, the messages
\* printed, and whether the command returned from inside the loop.
\* Variant: an invalid pattern never ends the command, whatever force is.
RECURSIVE ByTitleSkipsInvalid(_, _, _, _)
ByTitleSkipsInvalid(patterns, dashboards, forced, acc) ==
  IF patterns = <<>> THEN acc
  ELSE LET pattern == Head(patterns) IN
    IF ~Compiles(GlobToRegex(pattern))
      THEN ByTitleSkipsInvalid(Tail(patterns), dashboards, forced,
             [acc EXCEPT !.out = Append(@, Ev("error_invalid_pattern", pattern))])
      ELSE LET matches == Matches(pattern, dashboards) IN
           IF matches # <<>>
             THEN ByTitleSkipsInvalid(Tail(patterns), dashboards, forced,
                                      [acc EXCEPT !.uuids = @ \o matches])
             ELSE ByTitleSkipsInvalid(Tail(patterns), dashboards, forced,
                    [acc EXCEPT !.out = Append(@, Ev("warning_no_match", pattern))])

\* Variant: the pattern loop ends at the first pattern that matches nothing.
RECURSIVE ByTitleStopsAtNoMatch(_, _, _, _)
ByTitleStopsAtNoMatch(patterns, dashboards, forced, acc) ==
  IF patterns = <<>> THEN acc
  ELSE LET pattern == Head(patterns) IN
    IF ~Compiles(GlobToRegex(pattern))
      THEN LET said == [acc EXCEPT !.out = Append(@, Ev("error_invalid_pattern", pattern))] IN
           IF ~forced
             THEN [said EXCEPT !.returned = TRUE]
             ELSE ByTitleStopsAtNoMatch(Tail(patterns), dashboards, forced, said)
      ELSE LET matches == Matches(pattern, dashboards) IN
           IF matches # <<>>
             THEN ByTitleStopsAtNoMatch(Tail(patterns), dashboards, forced,
                                        [acc EXCEPT !.uuids = @ \o matches])
             ELSE [acc EXCEPT !.out = Append(@, Ev("warning_no_match", pattern))]

RECURSIVE ByTitle(_, _, _, _)
ByTitle(patterns, dashboards, forced, acc) ==
  IF patterns = <<>> THEN acc
  ELSE LET pattern == Head(patterns) IN
    IF ~Compiles(GlobToRegex(pattern))
      THEN LET said == [acc EXCEPT !.out = Append(@, Ev("error_invalid_pattern", pattern))] IN
           IF ~forced
             THEN [said EXCEPT !.returned = TRUE]
             ELSE ByTitle(Tail(patterns), dashboards, forced, said)
      ELSE LET matches == Matches(pattern, dashboards) IN
           IF matches # <<>>
             THEN ByTitle(Tail(patterns), dashboards, forced,
                          [acc EXCEPT !.uuids = @ \o matches])
             ELSE ByTitle(Tail(patterns), dashboards, forced,
                          [acc EXCEPT !.out = Append(@, Ev("warning_no_match", pattern))])

\* Variant: explicit identifiers are kept only when the listing has them.
CollectExisting(ids, dashboards, forced, title_mode, all_mode) ==
  IF all_mode THEN [uuids |-> AllUuids(dashboards), out |-> <<>>, returned |-> FALSE]
  ELSE IF title_mode
    THEN ByTitle(ids, dashboards, forced, [uuids |-> <<>>, out |-> <<>>, returned |-> FALSE])
    ELSE LET Listed(x) == \E k \in 1..Len(dashboards) : dashboards[k].uuid = x
         IN  [uuids |-> SelectSeq(ids, Listed), out |-> <<>>, returned |-> FALSE]

\* Variant: by_title is looked at before remove_all.
CollectTitleFirst(ids, dashboards, forced, title_mode, all_mode) ==
  IF title_mode
    THEN ByTitle(ids, dashboards, forced, [uuids |-> <<>>, out |-> <<>>, returned |-> FALSE])
  ELSE IF all_mode THEN [uuids |-> AllUuids(dashboards), out |-> <<>>, returned |-> FALSE]
  ELSE [uuids |-> ids, out |-> <<>>, returned |-> FALSE]

\* Collect UUIDs to delete: remove_all, then by_title, then the identifiers.
Collect(ids, dashboards, forced, title_mode, all_mode) ==
  IF all_mode THEN [uuids |-> AllUuids(dashboards), out |-> <<>>, returned |-> FALSE]
  ELSE IF title_mode
    THEN ByTitle(ids, dashboards, forced, [uuids |-> <<>>, out |-> <<>>, returned |-> FALSE])
    ELSE [uuids |-> ids, out |-> <<>>, returned |-> FALSE]

\* Variant: each element once, at its last position.
RECURSIVE DedupKeepsLast(_)
DedupKeepsLast(s) ==
  IF s = <<>> THEN <<>>
  ELSE LET back == DedupKeepsLast(Tail(s))
       IN  IF \E k \in 1..Len(back) : back[k] = Head(s) THEN back ELSE <<Head(s)>> \o back

\* Variant: the empty target list is not noticed.
NothingToDeleteNever(unique) == FALSE

\* `if not unique_uuids:` the command has nothing to delete.
NothingToDelete(unique) == unique = <<>>

\* list(dict.fromkeys(s)): each element once, at its first position.
RECURSIVE Dedup(_)
Dedup(s) ==
  IF s = <<>> THEN <<>>
  ELSE LET front == Dedup(SubSeq(s, 1, Len(s) - 1))
           last == s[Len(s)]
       IN  IF \E k \in 1..Len(front) : front[k] = last THEN front ELSE Append(front, last)

\* ------------------------------------------------------- confirmation gate
\* Variant: one line per target, in target order.
RenderedInTargetOrder(dashboards, targets) ==
  LET Of(x) == CHOOSE d \in Range(dashboards) : d.uuid = x
      Listed(x) == \E d \in Range(dashboards) : d.uuid = x
      shown == SelectSeq(targets, Listed)
  IN  <<Ev("info_dashboards_to_delete", <<>>)>> \o
      [k \in 1..Len(shown) |->
         [ev |-> "info_item", arg |-> shown[k], detail |-> TitleOrUntitled(Of(shown[k]))]]

\* "Dashboards to delete:" and one line per listed dashboard that is a target.
Rendered(dashboards, targets) ==
  LET IsTarget(d) == \E k \in 1..Len(targets) : targets[k] = d.uuid
      matched == SelectSeq(dashboards, IsTarget)
  IN  <<Ev("info_dashboards_to_delete", <<>>)>> \o
      [k \in 1..Len(matched) |->
         [ev |-> "info_item", arg |-> matched[k].uuid, detail |-> TitleOrUntitled(matched[k])]]

\* Variant: the list is shown in every mode unless forced.
ShowsMatchedInEveryMode(forced, title_mode, all_mode) == ~forced

ShowsMatched(forced, title_mode, all_mode) == (title_mode \/ all_mode) /\ ~forced

\* Variant: force does not suppress the prompt.
PromptsDespiteForce(forced, all_mode) ==
  IF all_mode THEN << <<"Are you absolutely sure?">> >>
  ELSE << <<"Are you sure you want to delete?">> >>

\* The prompts the gate issues, in order: the message of each confirm_action.
Prompts(forced, all_mode) ==
  IF all_mode /\ ~forced THEN << <<"Are you absolutely sure?">> >>
  ELSE IF ~forced THEN << <<"Are you sure you want to delete?">> >>
  ELSE <<>>

\* Variant: the command goes on whatever the user answers.
ProceedsRegardless(answers, n) == TRUE

\* `if not UI.confirm_action(...): return`: the command goes on only when
\* each of the n prompts is answered yes.
Proceeds(answers, n) == \A k \in 1..n : answers[k]

\* ------------------------------------------------------------ the API call
\* SignozAPI.delete_dashboard: True on 200/204; otherwise _handle_response
\* raises on a body that is not JSON and on a code >= 400, and a remaining
\* response makes the call return False.  Any exception is re-raised.
DeleteDashboard(resp) ==
  IF ~resp.sent THEN "raise"
  ELSE IF resp.code \in {200, 204} THEN "True"
  ELSE IF ~resp.json THEN "raise"
  ELSE IF resp.code >= 400 THEN "raise"
  ELSE "False"

\* ------------------------------------------------------- the deletion loop
\* if api.delete_dashboard(uuid): success_count += 1
Counted(res, count) == IF res = "True" THEN count + 1 ELSE count

\* except Exception: failed_uuids.append(uuid)
Recorded(res, failed, uuid) == IF res = "raise" THEN Append(failed, uuid) ELSE failed

\* Variant: a failed delete ends the loop (a `break` in the handler).
NextIndexBreakOnError(idx, res) ==
  IF res = "raise" THEN Len(unique_uuids) + 1 ELSE idx + 1

\* Variant: a failed delete is tried again.
NextIndexRetry(idx, res) == IF res = "raise" THEN idx ELSE idx + 1

\* for i, uuid in enumerate(unique_uuids, 1): the next index, whatever the
\* call did.
NextIndex(idx, res) == idx + 1

\* ----------------------------------------------------------- process exit
\* The exit status once the command has ended.  Under main() a
\* KeyboardInterrupt is caught and turned into sys.exit(1); in a direct call
\* it reaches the interpreter, which ends the process on SIGINT (130).
ExitStatus(how, from) ==
  CASE how = "return" -> 0
    [] how = "SystemExit" -> 1
    [] how = "KeyboardInterrupt" -> IF from = "main" THEN 1 ELSE 130
    [] OTHER -> 1

\* Keyword arguments main() passes to delete_dashboards, and the keyword
\* parameters delete_dashboards declares.
MainKeywords == {"force", "by_title", "remove_all", "skip_errors"}
DeleteParams == {"force", "by_title", "remove_all"}

\* ------------------------------------------------------------------ Init
\* An invocation: by_title takes patterns, the other modes uuids.  Run as
\* `sdm rm` (entry "main") the token may be missing; a direct caller hands
\* delete_dashboards an api object.
Init ==
  /\ command = "rm"
  /\ entry \in {"main", "direct"}
  /\ skip_errors \in (IF entry = "main" THEN BOOLEAN ELSE {FALSE})
  /\ file_paths = <<>>
  /\ failed_paths = <<>>
  /\ available = <<>>
  /\ force \in BOOLEAN
  /\ by_title \in BOOLEAN
  /\ remove_all \in BOOLEAN
  /\ identifiers \in (IF by_title THEN SeqsUpTo(Patterns, MaxPatterns)
                                  ELSE SeqsUpTo(Uuids, MaxIds))
  /\ token \in (IF entry = "main" THEN BOOLEAN ELSE {TRUE})
  /\ listing \in SeqsUpTo(Dashboards, MaxListing)
  /\ pc = (IF entry = "main" THEN "main" ELSE "start")
  /\ all_dashboards = <<>>
  /\ uuids_to_delete = <<>>
  /\ unique_uuids = <<>>
  /\ i = 1
  /\ success_count = 0
  /\ failed_uuids = <<>>
  /\ results = <<>>
  /\ trace = <<>>
  /\ reported = NotReported
  /\ outcome = "running"
  /\ status = -1
  /\ stopped_at = "none"

\* The command ends: nothing runs after it.
End(how) ==
  /\ pc' = "done"
  /\ outcome' = how
  /\ status' = ExitStatus(how, entry)
  /\ stopped_at' = pc

\* --------------------------------------------------------------- actions
\* The hint main() prints after "Please provide at least one dashboard
\* UUID/pattern": one for -T/--title, one otherwise.
Usage(title_mode) ==
  Ev("info_usage", IF title_mode THEN <<"Use -T/--title with regex patterns">>
                                 ELSE <<"Use dashboard UUIDs">>)

\* main(), command `rm`: the argument check, the token check and the call of
\* Commands.delete_dashboards; a TypeError from the call is caught by
\* main's `except Exception`.
MainRm ==
  /\ pc = "main"
  /\ command = "rm"
  /\ IF identifiers = <<>> /\ ~remove_all
       THEN /\ trace' = trace \o <<Ev("error_no_identifiers", <<>>), Usage(by_title)>>
            /\ End("SystemExit")
       ELSE IF ~token
         THEN /\ trace' = Append(trace, Ev("error_no_token", <<>>))
              /\ End("SystemExit")
         ELSE IF MainKeywords \subseteq DeleteParams
           THEN /\ pc' = "start"
                /\ UNCHANGED <<trace, outcome, status, stopped_at>>
           ELSE /\ trace' = Append(trace, Ev("error_unexpected", <<"TypeError">>))
                /\ End("TypeError")
  /\ UNCHANGED <<inputs, added, locals>>

\* all_dashboards = api.list_dashboards(); a failure is caught by the
\* outer `except Exception`: print the error and sys.exit(1).
ListDashboards ==
  /\ pc = "start"
  /\ \E ok \in BOOLEAN :
       IF ok
         THEN /\ all_dashboards' = listing
              /\ trace' = Append(trace, Ev("list_dashboards", <<>>))
              /\ pc' = "resolve"
              /\ UNCHANGED <<outcome, status, stopped_at>>
         ELSE /\ trace' = trace \o <<Ev("list_dashboards", <<>>), Ev("error", <<>>)>>
              /\ End("SystemExit")
              /\ UNCHANGED all_dashboards
  /\ UNCHANGED <<inputs, added, uuids_to_delete, unique_uuids, i, success_count,
                 failed_uuids, results, reported>>

\* Collect the uuids, remove the duplicates, and return when nothing is left.
ResolveTargets ==
  /\ pc = "resolve"
  /\ LET got == Collect(identifiers, all_dashboards, force, by_title, remove_all)
         unique == Dedup(got.uuids)
         dups == IF Len(unique) < Len(got.uuids)
                   THEN <<Ev("warning_duplicates", <<>>)>> ELSE <<>>
     IN  /\ uuids_to_delete' = got.uuids
         /\ IF got.returned
              THEN /\ trace' = trace \o got.out
                   /\ UNCHANGED unique_uuids
                   /\ End("return")
              ELSE /\ unique_uuids' = unique
                   /\ IF NothingToDelete(unique)
                        THEN /\ trace' = trace \o got.out \o dups \o
                                         <<Ev("warning_nothing_to_delete", <<>>)>>
                             /\ End("return")
                        ELSE /\ trace' = trace \o got.out \o dups
                             /\ pc' = "gate"
                             /\ UNCHANGED <<outcome, status, stopped_at>>
  /\ UNCHANGED <<inputs, added, all_dashboards, i, success_count, failed_uuids,
                 results, reported>>

\* What the gate prints before it asks: the matched list and the remove-all
\* warnings.
GateShown ==
  LET shown == IF ShowsMatched(force, by_title, remove_all)
                 THEN Rendered(all_dashboards, unique_uuids) ELSE <<>>
      warned == IF remove_all /\ ~force
                  THEN <<Ev("warning_remove_all", <<>>), Ev("warning_cannot_be_undone", <<>>)>>
                  ELSE <<>>
  IN  shown \o warned

\* What the answered prompts leave in the trace, given the user's answer to
\* each: the prompts up to the first one declined, then the cancellation.
GateEvents(answers) ==
  LET prompts == Prompts(force, remove_all)
      declined == { k \in 1..Len(prompts) : ~answers[k] }
      asked == IF declined = {} THEN Len(prompts)
               ELSE CHOOSE k \in declined : \A m \in declined : k <= m
  IN  [out |-> [k \in 1..asked |->
                  [ev |-> "confirm_action", arg |-> prompts[k],
                   detail |-> IF answers[k] THEN <<"y">> ELSE <<"n">>]] \o
               (IF Proceeds(answers, Len(prompts))
                  THEN <<>> ELSE <<Ev("info_cancelled", <<>>)>>),
       proceed |-> Proceeds(answers, Len(prompts))]

\* Lines 98-111: show the matched dashboards and the warnings; the command
\* then waits in UI.confirm_action, or enters the loop when nothing is asked.
ShowMatched ==
  /\ pc = "gate"
  /\ trace' = trace \o GateShown
  /\ pc' = IF Prompts(force, remove_all) = <<>> THEN "loop" ELSE "prompt"
  /\ UNCHANGED <<inputs, added, locals, outcome, status, stopped_at>>

\* The user answers the prompt: go on, or "Operation cancelled" and return.
ConfirmGate ==
  /\ pc = "prompt"
  /\ \E answers \in [1..Len(Prompts(force, remove_all)) -> BOOLEAN] :
       LET gate == GateEvents(answers) IN
       /\ trace' = trace \o gate.out
       /\ IF gate.proceed
            THEN /\ pc' = "loop"
                 /\ UNCHANGED <<outcome, status, stopped_at>>
            ELSE End("return")
  /\ UNCHANGED <<inputs, added, locals>>

\* The start of one iteration of the deletion loop: the delete call for
\* unique_uuids[i] is issued and the command waits for the response.
DeleteCall ==
  /\ pc = "loop"
  /\ i <= Len(unique_uuids)
  /\ trace' = Append(trace, Ev("delete_dashboard", unique_uuids[i]))
  /\ pc' = "deleting"
  /\ UNCHANGED <<inputs, added, locals, outcome, status, stopped_at>>

\* The rest of the iteration: the call returns or raises and the outcome is
\* counted, recorded and printed.
DeleteReturn ==
  /\ pc = "deleting"
  /\ \E resp \in Responses :
       LET uuid == unique_uuids[i]
           res == DeleteDashboard(resp)
       IN  /\ results' = Append(results, res)
           /\ success_count' = Counted(res, success_count)
           /\ failed_uuids' = Recorded(res, failed_uuids, uuid)
           /\ i' = NextIndex(i, res)
           /\ pc' = IF NextIndex(i, res) > Len(unique_uuids) THEN "summary" ELSE "loop"
           /\ trace' = trace \o
                       (CASE res = "True"  -> <<Ev("success_deleted", uuid)>>
                          [] res = "raise" -> <<Ev("error_failed", uuid)>>
                          [] OTHER -> <<>>)
  /\ UNCHANGED <<inputs, added, all_dashboards, uuids_to_delete, unique_uuids,
                 reported, outcome, status, stopped_at>>

\* The summary after the loop, then the normal return.
Summary ==
  /\ pc = "summary"
  /\ reported' = [printed |-> TRUE, succeeded |-> success_count, failed |-> failed_uuids]
  /\ trace' = Append(trace, IF failed_uuids # <<>> THEN Ev("warning_summary", <<>>)
                                                   ELSE Ev("success_summary", <<>>))
  /\ End("return")
  /\ UNCHANGED <<inputs, added, all_dashboards, uuids_to_delete, unique_uuids, i,
                 success_count, failed_uuids, results>>

\* Ctrl-C while the command runs: KeyboardInterrupt is no Exception, so no
\* handler of delete_dashboards catches it; main() prints and exits 1.
Interrupt ==
  /\ pc \in {"main", "start", "resolve", "gate", "prompt", "loop", "deleting",
            "summary", "add_start", "add_select", "add_confirm", "add_loop",
            "add_loading", "add_uploading", "add_summary"}
  /\ trace' = IF entry = "main"
                THEN Append(trace, Ev("warning_cancelled_by_user", <<>>)) ELSE trace
  /\ End("KeyboardInterrupt")
  /\ UNCHANGED <<inputs, added, locals>>

Next ==
  \/ MainRm
  \/ ListDashboards
  \/ ResolveTargets
  \/ ShowMatched
  \/ ConfirmGate
  \/ DeleteCall
  \/ DeleteReturn
  \/ Summary
  \/ Interrupt

Spec == Init /\ [][Next]_vars

\* ------------------------------------------------------- the add command
\* Keyword arguments main() passes to add_dashboards, and the keyword
\* parameters add_dashboards declares.
MainAddKeywords == {"skip_errors", "force"}
AddParams == {"skip_errors", "force"}

\* Variant: a failed item never ends the batch.
StopsBatchNever(skip) == FALSE

\* `if not skip_errors: raise`: a failed item ends the batch.
StopsBatch(skip) == ~skip

\* urlparse(file_path).scheme in ('http', 'https'): which loader reads it.
Loader(path) == IF Head(path) = "h" THEN "load_json_from_url" ELSE "load_json_from_file"

\* What one item can do: load and upload, fail to load, load and fail to
\* upload, or be uploaded and then fail at the read of its title (the
\* document is JSON but no object, or its "data" is none).
ItemResults == {"ok", "load_fail", "upload_fail", "uploaded_then_failed"}

\* `success_count += 1` follows the upload at once.
AddCounted(res) == res \in {"ok", "uploaded_then_failed"}

\* `except Exception`: the item is printed and recorded as failed.
AddFailed(res) == res # "ok"

\* _parse_selection: a number must be in 1..max_items and a range must have
\* 1 <= lo <= hi <= max_items; the first part that is not prints one error
\* and the selection is empty.  Otherwise the indices, each once, ascending.
ValidPart(part, max_items) ==
  CASE part.kind = "number" -> 0 < part.lo /\ part.lo <= max_items
    [] part.kind = "range" -> ~(part.lo < 1 \/ part.hi > max_items \/ part.lo > part.hi)
    [] OTHER -> FALSE

ParseSelection(selection, max_items) ==
  LET chosen == UNION { part.lo..part.hi : part \in Range(selection) }
  IN  IF \E part \in Range(selection) : ~ValidPart(part, max_items)
        THEN [error |-> TRUE, indices |-> <<>>]
        ELSE [error |-> FALSE,
              indices |-> [k \in 1..Cardinality(chosen) |->
                             CHOOSE x \in chosen : Cardinality({ y \in chosen : y < x }) = k - 1]]

InitAdd ==
  /\ command = "add"
  /\ entry \in {"main", "direct"}
  /\ skip_errors \in BOOLEAN
  /\ force \in BOOLEAN
  /\ by_title = FALSE
  /\ remove_all = FALSE
  /\ identifiers \in SeqsUpTo(Paths, MaxPaths)
  /\ token \in (IF entry = "main" THEN BOOLEAN ELSE {TRUE})
  /\ listing = <<>>
  /\ pc = (IF entry = "main" THEN "main" ELSE "add_start")
  /\ file_paths = (IF entry = "main" THEN <<>> ELSE identifiers)
  /\ failed_paths = <<>>
  /\ available = <<>>
  /\ all_dashboards = <<>>
  /\ uuids_to_delete = <<>>
  /\ unique_uuids = <<>>
  /\ i = 1
  /\ success_count = 0
  /\ failed_uuids = <<>>
  /\ results = <<>>
  /\ trace = <<>>
  /\ reported = NotReported
  /\ outcome = "running"
  /\ status = -1
  /\ stopped_at = "none"

\* main(), command `add`: the token check and the call of
\* Commands.add_dashboards.
MainAdd ==
  /\ pc = "main"
  /\ command = "add"
  /\ IF ~token
       THEN /\ trace' = Append(trace, Ev("error_no_token", <<>>))
            /\ End("SystemExit")
            /\ UNCHANGED file_paths
       ELSE IF MainAddKeywords \subseteq AddParams
         THEN /\ pc' = "add_start"
              /\ file_paths' = identifiers
              /\ UNCHANGED <<trace, outcome, status, stopped_at>>
         ELSE /\ trace' = Append(trace, Ev("error_unexpected", <<"TypeError">>))
              /\ End("TypeError")
              /\ UNCHANGED file_paths
  /\ UNCHANGED <<inputs, failed_paths, available, locals>>

\* total = len(file_paths); more than one item asks for one confirmation
\* unless forced.
AfterSelection(paths) == IF ~force /\ Len(paths) > 1 THEN "add_confirm" ELSE "add_loop"

\* add_dashboards from its start to the first wait.  With file paths: on to
\* the confirmation or the loop.  Without: fetch the repository list; a
\* failed fetch prints its error and gives no dashboards, and no dashboards
\* print "No dashboards available" and return; otherwise the list is shown
\* and the command waits for the selection.
AddStart ==
  /\ pc = "add_start"
  /\ IF file_paths # <<>>
       THEN /\ pc' = AfterSelection(file_paths)
            /\ UNCHANGED <<available, trace, outcome, status, stopped_at>>
       ELSE \E fetched \in BOOLEAN, tree \in Repository :
              LET dashboards == IF fetched THEN tree ELSE <<>>
              IN  /\ available' = dashboards
                  /\ IF dashboards = <<>>
                       THEN /\ trace' = trace \o
                                 (IF fetched THEN <<>> ELSE <<Ev("error", <<>>)>>) \o
                                 <<Ev("error_no_dashboards_available", <<>>)>>
                            /\ End("return")
                       ELSE /\ trace' = Append(trace, Ev("display_available_dashboards", <<>>))
                            /\ pc' = "add_select"
                            /\ UNCHANGED <<outcome, status, stopped_at>>
  /\ UNCHANGED <<inputs, file_paths, failed_paths, locals>>

\* The user answers the selection prompt.  An empty answer or one that does
\* not parse selects nothing: "No dashboards selected" and return.  Otherwise
\* the selected dashboards are printed and become the file paths.
AddSelect ==
  /\ pc = "add_select"
  /\ \E selection \in SeqsUpTo(SelectionParts, MaxParts) :
       LET parsed == ParseSelection(selection, Len(available))
           selected == [k \in 1..Len(parsed.indices) |-> available[parsed.indices[k]]]
           asked == <<Ev("prompt_dashboard_selection", <<>>)>>
       IN  IF selected = <<>>
             THEN /\ trace' = trace \o asked \o
                               (IF parsed.error THEN <<Ev("error", <<>>)>> ELSE <<>>) \o
                               <<Ev("info_nothing_selected", <<>>)>>
                  /\ End("return")
                  /\ UNCHANGED file_paths
             ELSE /\ trace' = trace \o asked \o <<Ev("info_selected_dashboards", <<>>)>> \o
                               [k \in 1..Len(selected) |-> Ev("info_selected", selected[k])]
                  /\ file_paths' = selected
                  /\ pc' = AfterSelection(selected)
                  /\ UNCHANGED <<outcome, status, stopped_at>>
  /\ UNCHANGED <<inputs, failed_paths, available, locals>>

\* The user answers "Are you sure you want to add N dashboards?".
AddConfirm ==
  /\ pc = "add_confirm"
  /\ \E answer \in BOOLEAN :
       /\ trace' = trace \o
            << [ev |-> "confirm_action",
                arg |-> <<"Are you sure you want to add?">>,
                detail |-> IF answer THEN <<"y">> ELSE <<"n">>] >> \o
            (IF answer THEN <<>> ELSE <<Ev("info_cancelled", <<>>)>>)
       /\ IF answer
            THEN /\ pc' = "add_loop"
                 /\ UNCHANGED <<outcome, status, stopped_at>>
            ELSE End("return")
  /\ UNCHANGED <<inputs, added, locals>>

\* The end of one iteration of the add loop with result res: counted when
\* uploaded; a failure is printed and recorded, and re-raised unless
\* skip_errors: the outer handler then prints it and exits 1.
ItemEnds(res) ==
  LET path == file_paths[i]
      next == IF i + 1 > Len(file_paths) THEN "add_summary" ELSE "add_loop"
  IN  /\ results' = Append(results, res)
      /\ success_count' = IF AddCounted(res) THEN success_count + 1 ELSE success_count
      /\ failed_paths' = IF AddFailed(res) THEN Append(failed_paths, path) ELSE failed_paths
      /\ i' = i + 1
      /\ IF ~AddFailed(res)
           THEN /\ trace' = Append(trace, Ev("success_added", path))
                /\ pc' = next
                /\ UNCHANGED <<outcome, status, stopped_at>>
           ELSE IF StopsBatch(skip_errors)
             THEN /\ trace' = trace \o <<Ev("error_failed_to_add", path), Ev("error", <<>>)>>
                  /\ End("SystemExit")
             ELSE /\ trace' = Append(trace, Ev("error_failed_to_add", path))
                  /\ pc' = next
                  /\ UNCHANGED <<outcome, status, stopped_at>>
      /\ UNCHANGED <<inputs, file_paths, available, all_dashboards, uuids_to_delete,
                     unique_uuids, failed_uuids, reported>>

\* The start of one iteration of the add loop: the load of file_paths[i]
\* from its file or URL begins.
AddLoad ==
  /\ pc = "add_loop"
  /\ i <= Len(file_paths)
  /\ trace' = Append(trace, Ev(Loader(file_paths[i]), file_paths[i]))
  /\ pc' = "add_loading"
  /\ UNCHANGED <<inputs, added, locals, outcome, status, stopped_at>>

\* The load returns the document, and the upload is issued, or it raises.
AddLoaded ==
  /\ pc = "add_loading"
  /\ \E loaded \in BOOLEAN :
       IF loaded
         THEN /\ trace' = Append(trace, Ev("add_dashboard", file_paths[i]))
              /\ pc' = "add_uploading"
              /\ UNCHANGED <<inputs, added, locals, outcome, status, stopped_at>>
         ELSE ItemEnds("load_fail")

\* api.add_dashboard returns the uuid or raises; after a return the count
\* is incremented and the title is read from the document.
AddUploaded ==
  /\ pc = "add_uploading"
  /\ \E res \in ItemResults \ {"load_fail"} : ItemEnds(res)

\* `if success_count == total`: the summary is the success line, which
\* names no failed path.
AllAdded(count, total) == count = total

\* The summary after the add loop, then the normal return.
AddSummary ==
  /\ pc = "add_summary"
  /\ reported' = [printed |-> TRUE, succeeded |-> success_count,
                   failed |-> IF AllAdded(success_count, Len(file_paths))
                                THEN <<>> ELSE failed_paths]
  /\ trace' = Append(trace, IF AllAdded(success_count, Len(file_paths))
                              THEN Ev("success_summary", <<>>)
                              ELSE Ev("warning_summary", <<>>))
  /\ End("return")
  /\ UNCHANGED <<inputs, added, all_dashboards, uuids_to_delete, unique_uuids, i,
                 success_count, failed_uuids, results>>

\* Both batch commands: an invocation of `rm` or of `add`.
InitBatch == Init \/ InitAdd

NextBatch ==
  \/ Next
  \/ MainAdd
  \/ AddStart
  \/ AddSelect
  \/ AddConfirm
  \/ AddLoad
  \/ AddLoaded
  \/ AddUploaded
  \/ AddSummary

SpecBatch == InitBatch /\ [][NextBatch]_vars

\* Resolution alone, on longer identifier lists: a direct call that fetches
\* the listing and resolves the targets.
InitResolve ==
  /\ command = "rm"
  /\ entry = "direct"
  /\ skip_errors = FALSE
  /\ file_paths = <<>>
  /\ failed_paths = <<>>
  /\ available = <<>>
  /\ force \in BOOLEAN
  /\ by_title \in BOOLEAN
  /\ remove_all \in BOOLEAN
  /\ identifiers \in (IF by_title THEN SeqsUpTo(Patterns, MaxPatterns)
                                  ELSE SeqsUpTo(Uuids, MaxRawIds))
  /\ token = TRUE
  /\ listing \in SeqsUpTo(Dashboards, MaxListing)
  /\ pc = "start"
  /\ all_dashboards = <<>>
  /\ uuids_to_delete = <<>>
  /\ unique_uuids = <<>>
  /\ i = 1
  /\ success_count = 0
  /\ failed_uuids = <<>>
  /\ results = <<>>
  /\ trace = <<>>
  /\ reported = NotReported
  /\ outcome = "running"
  /\ status = -1
  /\ stopped_at = "none"

NextResolve ==
  \/ ListDashboards
  \/ ResolveTargets

SpecResolve == InitResolve /\ [][NextResolve]_vars

\* The positions of the events of one kind in the trace.
Indices(e) == { k \in 1..Len(trace) : trace[k].ev = e }

\* The uuids the delete call was issued for, in call order.
Calls ==
  LET IsDelete(e) == e.ev = "delete_dashboard"
      made == SelectSeq(trace, IsDelete)
  IN  [k \in 1..Len(made) |-> made[k].arg]

\* The deletion loop has run to its end: every target has had its turn.
LoopFinished ==
  /\ command = "rm"
  /\ unique_uuids # <<>>
  /\ i > Len(unique_uuids)

\* The targets have been computed (line 88 has run: the command did not end
\* before it or inside the pattern loop).
TargetsResolved ==
  \/ pc \in {"gate", "prompt", "loop", "deleting", "summary"}
  \/ unique_uuids # <<>>
  \/ Indices("warning_nothing_to_delete") # {}

\* `if not force: return` in the pattern loop: delete_dashboards returned
\* without computing the targets.
ReturnedFromPatternLoop ==
  /\ command = "rm"
  /\ outcome = "return"
  /\ ~TargetsResolved

\* A confirmation prompt was answered no.
Declined == \E k \in Indices("confirm_action") : trace[k].detail = <<"n">>

\* The positions of the patterns that do not compile.
BadPatterns ==
  { k \in 1..Len(identifiers) : ~Compiles(GlobToRegex(identifiers[k])) }

\* The dashboards pattern k matches are among the collected uuids.
MatchesCollected(k) ==
  Range(Matches(identifiers[k], all_dashboards)) \subseteq Range(uuids_to_delete)

\* ------------------------------------------------------------------ claims
\* C1 (as claimed): when the deletion loop has finished, the successes plus
\* the ids recorded as failed add up to the number of unique targets,
\* whatever each delete call did (True, False without raising, raise).
C1_Accounting ==
  LoopFinished => success_count + Len(failed_uuids) = Len(unique_uuids)

\* C2 (as claimed): an invocation that ran the deletion loop exits with
\* status 0 exactly when no deletion failed.
C2_ExitStatusReflectsFailures ==
  (pc = "done" /\ reported.printed) => (status = 0 <=> failed_uuids = <<>>)

\* C3 (as claimed): `sdm rm` with an identifier or --all, --yes and a usable
\* token, not interrupted, ends having fetched the listing.
C3_MainReachesDelete ==
  ( /\ entry = "main"
    /\ pc = "done"
    /\ outcome # "KeyboardInterrupt"
    /\ identifiers # <<>> \/ remove_all
    /\ force
    /\ token )
  => Indices("list_dashboards") # {}

\* C4: a delete call that raises is recorded in failed_uuids and the calls
\* for the later targets are still made: the loop ends only at the last
\* target (or on an interrupt), and for [x, y, z] with only y failing the
\* result is 2 successes and failed = [y].
C4_FailureIsolated ==
  /\ Len(results) <= Len(Calls)
  /\ \A k \in 1..Len(results) :
       results[k] = "raise" =>
         /\ unique_uuids[k] \in Range(failed_uuids)
         /\ k < Len(unique_uuids) =>
              \/ Len(Calls) > k
              \/ pc = "loop"
              \/ outcome = "KeyboardInterrupt"
  /\ LoopFinished => (Calls = unique_uuids /\ Len(results) = Len(Calls))
  /\ (LoopFinished /\ results = <<"True", "raise", "True">>) =>
       (success_count = 2 /\ failed_uuids = <<unique_uuids[2]>>)

C4_Witness ==
  /\ reported.printed
  /\ results = <<"True", "raise", "True">>
  /\ reported.succeeded = 2
  /\ reported.failed = <<unique_uuids[2]>>
  /\ Calls[3] = unique_uuids[3]

\* C5: the delete calls made are the targets in target order, each once and
\* none repeated after a failure; an invocation that reaches the summary has
\* called every target.
C5_OncePerTargetInOrder ==
  /\ Len(Calls) <= Len(unique_uuids)
  /\ \A k \in 1..Len(Calls) : Calls[k] = unique_uuids[k]
  /\ \A j, k \in 1..Len(Calls) : j # k => Calls[j] # Calls[k]
  /\ Len(Calls) \in {Len(results), Len(results) + 1}
  /\ Len(Calls) = Len(results) + 1 => (pc = "deleting" \/ outcome = "KeyboardInterrupt")
  /\ command = "rm" => i = Len(results) + 1
  /\ reported.printed => Len(Calls) = Len(unique_uuids)

C5_Witness ==
  /\ reported.printed
  /\ outcome = "return"
  /\ unique_uuids = << <<"2">>, <<"3">>, <<"1">> >>
  /\ Calls = unique_uuids
  /\ results[1] = "raise"

\* C6: once a confirmation prompt is declined no delete call has been or
\* will be issued: the command has returned normally with status 0.
C6_DeclineIsCleanExit ==
  Declined =>
    /\ Calls = <<>>
    /\ results = <<>>
    /\ pc = "done"
    /\ outcome = "return"
    /\ status = 0

C6_Witness ==
  /\ Declined
  /\ ~force
  /\ unique_uuids # <<>>
  /\ pc = "done"

\* C7 (as claimed): in remove-all mode with force off, a delete call is
\* preceded by two different confirmation prompts, both answered yes.
C7_TwoStepConfirmation ==
  (remove_all /\ ~force /\ Calls # <<>>) =>
    \E j, k \in Indices("confirm_action") :
      /\ j < k
      /\ trace[j].arg # trace[k].arg
      /\ trace[j].detail = <<"y">>
      /\ trace[k].detail = <<"y">>
      /\ \A d \in Indices("delete_dashboard") : k < d

\* C8: with force on there is never a confirmation prompt nor a rendered
\* list, and a command with targets goes through the deletion loop: it can
\* only end by the normal return after the summary or by an interrupt.
C8_ForceSkipsGate ==
  force =>
    /\ Indices("confirm_action") = {}
    /\ Indices("info_dashboards_to_delete") = {}
    /\ Indices("info_item") = {}
    /\ (unique_uuids # <<>> /\ pc = "done") =>
         outcome \in {"return", "KeyboardInterrupt"}
    /\ (unique_uuids # <<>> /\ outcome = "return") =>
         (reported.printed /\ Calls = unique_uuids)

C8_Witness ==
  /\ force
  /\ by_title
  /\ ~remove_all
  /\ reported.printed
  /\ Calls = unique_uuids
  /\ Len(Calls) = 2

\* C9 (as claimed): in title-pattern mode an invalid pattern is skipped and
\* the other patterns still contribute their matches, unless it is the only
\* pattern and force is off, when the command aborts without a delete call.
C9_OnlySolePatternAborts ==
  (by_title /\ ~remove_all /\ (TargetsResolved \/ ReturnedFromPatternLoop)) =>
    /\ ~(Len(identifiers) = 1 /\ ~force) =>
         \A k \in (1..Len(identifiers)) \ BadPatterns : MatchesCollected(k)
    /\ (Len(identifiers) = 1 /\ ~force /\ BadPatterns # {}) =>
         (Calls = <<>> /\ pc = "done")

\* C9 (amended): in title-pattern mode every invalid pattern reached is
\* reported; with force on it is skipped and every valid pattern contributes
\* its matches; with force off the command returns at the first invalid
\* pattern, however many patterns there are: only the patterns before it
\* were matched, and there is no prompt and no delete call.
C9_InvalidPatternAbortsUnlessForced ==
  (by_title /\ ~remove_all /\ (TargetsResolved \/ ReturnedFromPatternLoop)) =>
    /\ \A k \in (1..Len(identifiers)) \ BadPatterns :
         (force \/ \A b \in BadPatterns : k < b) => MatchesCollected(k)
    /\ force =>
         \A b \in BadPatterns :
           \E e \in Indices("error_invalid_pattern") : trace[e].arg = identifiers[b]
    /\ (~force /\ BadPatterns # {}) =>
         /\ pc = "done"
         /\ outcome = "return"
         /\ Calls = <<>>
         /\ unique_uuids = <<>>
         /\ Indices("confirm_action") = {}
         /\ Cardinality(Indices("error_invalid_pattern")) = 1
         /\ \A e \in Indices("error_invalid_pattern") :
              \E f \in BadPatterns :
                /\ \A b \in BadPatterns : f <= b
                /\ trace[e].arg = identifiers[f]

C9_Witness ==
  /\ by_title
  /\ ~remove_all
  /\ ~force
  /\ Len(identifiers) = 2
  /\ BadPatterns = {1}
  /\ Matches(identifiers[2], all_dashboards) # <<>>
  /\ uuids_to_delete = <<>>
  /\ outcome = "return"

\* C10 (as claimed): after an interrupt in the deletion loop (some targets
\* called, some still to come) no further
\* delete call is made, the partial result is reported and the status is
\* not 0.
C10_InterruptReportsPartialResult ==
  ( /\ outcome = "KeyboardInterrupt"
    /\ results # <<>>
    /\ Len(results) < Len(unique_uuids) ) =>
    /\ pc = "done"
    /\ Len(Calls) <= Len(results) + 1
    /\ status # 0
    /\ reported.printed
    /\ reported.succeeded = success_count
    /\ reported.failed = failed_uuids

\* The first position of x in s.
FirstAt(s, x) == CHOOSE k \in 1..Len(s) : s[k] = x /\ \A j \in 1..(k - 1) : s[j] # x

\* C11: the resolved targets hold every collected id, none twice, in the
\* order of the first occurrences in the collected sequence; [a, b, a, c, b]
\* resolves to [a, b, c].
C11_DedupKeepsFirstSeenOrder ==
  TargetsResolved =>
    /\ \A j, k \in 1..Len(unique_uuids) : j # k => unique_uuids[j] # unique_uuids[k]
    /\ Range(unique_uuids) = Range(uuids_to_delete)
    /\ \A j, k \in 1..Len(unique_uuids) :
         j < k => FirstAt(uuids_to_delete, unique_uuids[j])
                    < FirstAt(uuids_to_delete, unique_uuids[k])
    /\ uuids_to_delete = << <<"1">>, <<"2">>, <<"1">>, <<"3">>, <<"2">> >>
         => unique_uuids = << <<"1">>, <<"2">>, <<"3">> >>

C11_Witness ==
  /\ pc = "gate"
  /\ ~by_title
  /\ ~remove_all
  /\ identifiers = << <<"1">>, <<"2">>, <<"1">>, <<"3">>, <<"2">> >>
  /\ unique_uuids = << <<"1">>, <<"2">>, <<"3">> >>
  /\ Indices("warning_duplicates") # {}

\* C12: a resolution that leaves no target ends the command at once, with
\* the "nothing to delete" warning, status 0, no prompt, no rendered list and
\* no delete call, whatever force is; the gate and the loop are only ever
\* reached with targets.
C12_NoTargetsIsNoOp ==
  /\ pc \in {"gate", "prompt", "loop", "deleting", "summary"} => unique_uuids # <<>>
  /\ (TargetsResolved /\ unique_uuids = <<>>) =>
       /\ pc = "done"
       /\ outcome = "return"
       /\ status = 0
       /\ Indices("warning_nothing_to_delete") # {}
       /\ Indices("confirm_action") = {}
       /\ Indices("info_dashboards_to_delete") = {}
       /\ Calls = <<>>
       /\ results = <<>>

C12_Witness ==
  /\ force
  /\ by_title
  /\ ~remove_all
  /\ identifiers = << <<"a">> >>
  /\ all_dashboards # <<>>
  /\ unique_uuids = <<>>
  /\ Indices("warning_no_match") # {}
  /\ Indices("warning_nothing_to_delete") # {}
  /\ status = 0

\* The items of the add loop whose load was started.
Loads == Indices("load_json_from_file") \cup Indices("load_json_from_url")

\* C13: in `add` without skip_errors the first failing item is the last one
\* tried (nothing after it is loaded or uploaded) and the process exits 1;
\* with skip_errors a failure is only recorded and every item is tried
\* before the summary; in `rm` a failing delete call never keeps the later
\* targets from being called.
C13_AddAbortsDeleteGoesOn ==
  /\ (command = "add" /\ ~skip_errors) =>
       \A k \in 1..Len(results) :
         results[k] # "ok" =>
           /\ k = Len(results)
           /\ pc = "done"
           /\ outcome = "SystemExit"
           /\ status = 1
           /\ ~reported.printed
           /\ Cardinality(Loads) = k
           /\ Cardinality(Indices("add_dashboard")) <= k
  /\ (command = "add" /\ skip_errors) =>
       /\ Len(failed_paths) = Cardinality({ k \in 1..Len(results) : results[k] # "ok" })
       /\ results # <<>> => outcome # "SystemExit"
       /\ (pc = "add_summary" \/ reported.printed) =>
            (Len(results) = Len(file_paths) /\ Cardinality(Loads) = Len(file_paths))
       /\ (pc = "done" /\ results # <<>> /\ outcome # "KeyboardInterrupt") =>
            (reported.printed /\ outcome = "return")
  /\ command = "rm" =>
       /\ \A k \in 1..Len(results) :
            (results[k] = "raise" /\ k < Len(unique_uuids)) =>
              \/ Len(Calls) > k
              \/ pc = "loop"
              \/ outcome = "KeyboardInterrupt"
       /\ LoopFinished => Calls = unique_uuids
       /\ (pc = "done" /\ results # <<>> /\ outcome # "KeyboardInterrupt") =>
            (reported.printed /\ outcome = "return")

C13_Witness ==
  /\ command = "add"
  /\ ~skip_errors
  /\ Len(file_paths) = 2
  /\ results = <<"upload_fail">>
  /\ failed_paths = <<file_paths[1]>>
  /\ Cardinality(Loads) = 1
  /\ status = 1

\* The concatenation of the matches of the first n patterns, a pattern that
\* does not compile matching nothing.
RECURSIVE MatchedUpTo(_)
MatchedUpTo(n) ==
  IF n = 0 THEN <<>>
  ELSE MatchedUpTo(n - 1) \o
       (IF n \in BadPatterns THEN <<>> ELSE Matches(identifiers[n], all_dashboards))

\* The patterns that compile and match no dashboard of the listing.
UnmatchedPatterns ==
  { k \in (1..Len(identifiers)) \ BadPatterns :
      Matches(identifiers[k], all_dashboards) = <<>> }

\* C14: in title-pattern mode the collected sequence is the matches of the
\* patterns, concatenated in pattern order, each in listing order; a pattern
\* that matches nothing adds no id and exactly one warning naming it, and
\* does not end the command.
C14_PatternMatchesConcatenated ==
  (by_title /\ ~remove_all /\ TargetsResolved) =>
    /\ uuids_to_delete = MatchedUpTo(Len(identifiers))
    /\ \A k \in 1..Len(identifiers) :
         k \notin BadPatterns =>
           \A m \in 1..Len(all_dashboards) :
             Search(GlobToRegex(identifiers[k]), TitleOrEmpty(all_dashboards[m]))
               => all_dashboards[m].uuid \in Range(uuids_to_delete)
    /\ Cardinality(Indices("warning_no_match")) = Cardinality(UnmatchedPatterns)
    /\ \A k \in UnmatchedPatterns :
         \E e \in Indices("warning_no_match") : trace[e].arg = identifiers[k]

C14_Witness ==
  /\ by_title
  /\ ~remove_all
  /\ pc = "gate"
  /\ identifiers = << <<"a">>, <<"*">> >>
  /\ Len(all_dashboards) = 1
  /\ uuids_to_delete = << <<"2">> >>
  /\ Cardinality(Indices("warning_no_match")) = 1

\* C15: in remove-all mode the collected uuids are those of the fetched
\* listing, position by position; the targets are these uuids, each once, and
\* a run that reaches the summary has issued a delete call for every
\* dashboard of the listing.
C15_RemoveAllTargetsListing ==
  (remove_all /\ TargetsResolved) =>
    /\ all_dashboards = listing
    /\ Len(uuids_to_delete) = Len(listing)
    /\ \A k \in 1..Len(listing) : uuids_to_delete[k] = listing[k].uuid
    /\ Range(unique_uuids) = { listing[k].uuid : k \in 1..Len(listing) }
    /\ \A j, k \in 1..Len(unique_uuids) : j # k => unique_uuids[j] # unique_uuids[k]
    /\ reported.printed =>
         \A k \in 1..Len(listing) : listing[k].uuid \in Range(Calls)

C15_Witness ==
  /\ remove_all
  /\ ~force
  /\ reported.printed
  /\ Len(listing) = 2
  /\ listing[1].uuid = <<"2">>
  /\ listing[2].uuid = <<"1">>
  /\ Calls = << <<"2">>, <<"1">> >>

\* C16: in explicit-id mode the collected uuids are the identifiers as given,
\* in or out of the listing, and a run that reaches the summary has issued a
\* delete call for each of them.
C16_ExplicitIdsVerbatim ==
  (~remove_all /\ ~by_title /\ TargetsResolved) =>
    /\ uuids_to_delete = identifiers
    /\ Range(unique_uuids) = Range(identifiers)
    /\ reported.printed => Range(Calls) = Range(identifiers)

C16_Witness ==
  /\ ~remove_all
  /\ ~by_title
  /\ reported.printed
  /\ all_dashboards # <<>>
  /\ identifiers = << <<"3">>, <<"1">> >>
  /\ Calls = identifiers
  /\ results = <<"raise", "True">>
  /\ failed_uuids = << <<"3">> >>

\* The command is past the confirmation gate, or was ended by it.
PastGate ==
  \/ pc \in {"loop", "deleting", "summary"}
  \/ stopped_at \in {"loop", "deleting", "summary"}
  \/ Indices("confirm_action") # {}
  \/ Calls # <<>>

\* The gate has shown what it shows: the command waits at the prompt or is
\* past it.
ListShown == pc = "prompt" \/ stopped_at = "prompt" \/ PastGate

\* The uuids of the rendered "Dashboards to delete" lines, in print order.
RenderedUuids ==
  LET IsItem(e) == e.ev = "info_item"
      items == SelectSeq(trace, IsItem)
  IN  [k \in 1..Len(items) |-> items[k].arg]

\* C17: a non-forced `rm` by title or by explicit id that passes the gate
\* has asked exactly one prompt, the standard one, before any delete call;
\* by title the matched list (uuid and title of listed dashboards) is
\* printed before that prompt, by explicit id no list is printed.
C17_SingleStandardPrompt ==
  (command = "rm" /\ ~force /\ ~remove_all /\ ListShown) =>
    /\ pc = "prompt" => (Indices("confirm_action") = {} /\ Calls = <<>>)
    /\ PastGate => Cardinality(Indices("confirm_action")) = 1
    /\ \A q \in Indices("confirm_action") :
         /\ trace[q].arg = <<"Are you sure you want to delete?">>
         /\ \A d \in Indices("delete_dashboard") : q < d
         /\ Calls # <<>> => trace[q].detail = <<"y">>
         /\ \A e \in Indices("info_dashboards_to_delete") \cup Indices("info_item") : e < q
    /\ by_title =>
         /\ Cardinality(Indices("info_dashboards_to_delete")) = 1
         /\ Indices("info_item") # {}
         /\ \A e \in Indices("info_item") :
              \E m \in 1..Len(all_dashboards) :
                /\ all_dashboards[m].uuid = trace[e].arg
                /\ trace[e].detail = (IF all_dashboards[m].has_title
                                        THEN all_dashboards[m].title
                                        ELSE <<"U", "n", "t", "i", "t", "l", "e", "d">>)
    /\ ~by_title =>
         /\ Indices("info_dashboards_to_delete") = {}
         /\ Indices("info_item") = {}

C17_Witness ==
  /\ command = "rm"
  /\ ~force
  /\ ~remove_all
  /\ by_title
  /\ reported.printed
  /\ Len(Calls) = 2
  /\ Cardinality(Indices("info_item")) = 2
  /\ Cardinality(Indices("confirm_action")) = 1

\* C18: with remove_all the identifiers and by_title change nothing: the
\* collected uuids are those of the listing, no pattern is compiled or
\* matched, and without force the list is shown and the one prompt is the
\* remove-all one.
C18_RemoveAllIgnoresIdentifiers ==
  (command = "rm" /\ remove_all /\ (TargetsResolved \/ outcome = "return")) =>
    /\ uuids_to_delete = [k \in 1..Len(all_dashboards) |-> all_dashboards[k].uuid]
    /\ ~ReturnedFromPatternLoop
    /\ Indices("error_invalid_pattern") = {}
    /\ Indices("warning_no_match") = {}
    /\ \A q \in Indices("confirm_action") :
         /\ trace[q].arg = <<"Are you absolutely sure?">>
         /\ \E w \in Indices("warning_remove_all") : w < q
    /\ (~force /\ PastGate) => Cardinality(Indices("confirm_action")) = 1
    /\ (~force /\ ListShown) => Cardinality(Indices("info_dashboards_to_delete")) = 1
    /\ force => Indices("confirm_action") = {}

C18_Witness ==
  /\ command = "rm"
  /\ remove_all
  /\ by_title
  /\ ~force
  /\ identifiers = << <<"(">>, <<"a">> >>
  /\ Len(all_dashboards) = 2
  /\ reported.printed
  /\ Len(Calls) = 2
  /\ Indices("confirm_action") # {}

\* The listing holds no uuid twice.
ListingUnique ==
  \A j, k \in 1..Len(all_dashboards) :
    j # k => all_dashboards[j].uuid # all_dashboards[k].uuid

\* C19: by title or remove-all, force off, on a listing without a repeated
\* uuid: the rendered lines are the targets, each once and nothing else, in
\* listing order (which need not be the target order), and a run that
\* reaches the summary has called delete for exactly the rendered uuids.
C19_RenderedListIsTargetSet ==
  (command = "rm" /\ ~force /\ (by_title \/ remove_all) /\ ListingUnique /\ ListShown) =>
    /\ Range(RenderedUuids) = Range(unique_uuids)
    /\ Len(RenderedUuids) = Len(unique_uuids)
    /\ \A j, k \in 1..Len(RenderedUuids) : j # k => RenderedUuids[j] # RenderedUuids[k]
    /\ \A j, k \in 1..Len(RenderedUuids) :
         j < k =>
           \E m, n \in 1..Len(all_dashboards) :
             /\ m < n
             /\ all_dashboards[m].uuid = RenderedUuids[j]
             /\ all_dashboards[n].uuid = RenderedUuids[k]
    /\ reported.printed => Range(Calls) = Range(RenderedUuids)

C19_Witness ==
  /\ command = "rm"
  /\ ~force
  /\ by_title
  /\ ~remove_all
  /\ ListingUnique
  /\ reported.printed
  /\ unique_uuids = << <<"1">>, <<"2">> >>
  /\ RenderedUuids = << <<"2">>, <<"1">> >>
  /\ Calls = unique_uuids

====
